---- MODULE Spec2Model ----
(***************************************************************************)
(* Model of numba/npyufunc/workqueue.c: a fixed pool of worker threads,    *)
(* one task slot (Queue) per worker, driven through a four-state           *)
(* compare-and-swap handshake on Queue.lock.                               *)
(*                                                                         *)
(* The state is that of one address space: the globals of the C file, the  *)
(* heap block `queues` points to, and the position of every thread of the  *)
(* process. fork() moves the model to the child's address space, a copy    *)
(* of the globals on which reset_after_fork has run and in which only the  *)
(* forking thread exists. In the parent fork() changes nothing, so the     *)
(* parent's behaviours after a fork are its behaviours without one.        *)
(*                                                                         *)
(* Each thread takes one step per access to shared memory: cas_wait is a   *)
(* test of the global `cas` (line 40) followed by the call through it      *)
(* (line 42).                                                              *)
(***************************************************************************)
EXTENDS Integers, Sequences, FiniteSets, TLC

\* ------------------------------------------------------------------ bounds
MaxThreads == 2     \* largest count handed to launch_threads
MaxTasks   == 4     \* add_task calls per process
MaxSub     == 3     \* add_task calls between two returns of synchronize
MaxForks   == 1     \* generations of fork() followed
MaxNaps    == 40    \* naps followed in one cas_wait call

\* --------------------------------------------------------------- constants
NULL    == 0        \* null pointer: cas, queues, Task.func
CAS_FN  == 1        \* the address of the installed compare-and-swap function
IDLE    == 0        \* enum QUEUE_STATE (workqueue.h); memset(0) makes a slot IDLE
READY   == 1
RUNNING == 2
DONE    == 3

VARIABLES
    forks,        \* number of fork() calls between the first process and this one
    status,       \* "live", or "crashed" once the process has trapped
    cas,          \* static cas_function_t *cas
    queues,       \* static Queue *queues: NULL or the id of the malloc'ed block
    queue_count,  \* static int queue_count
    queue_pivot,  \* static int queue_pivot
    lock,         \* Queue.lock of every slot of the block queues points to
    task,         \* Queue.task.func of every slot (NULL, or a task id)
    allocated,    \* blocks malloc'ed in this address space or copied into it by fork
    inherited,    \* the blocks of `allocated` that fork copied from an ancestor
    freed,        \* blocks passed to free() in this address space
    atfork,       \* number of pthread_atfork registrations of reset_after_fork
    wpc,          \* position of the worker thread of every slot
    dpc,          \* position of the driver thread
    di,           \* loop index i of ready() / synchronize()
    darg,         \* argument of the launch_threads call in progress
    ntask,        \* number of add_task calls made so far (names the tasks)
    sub,          \* tasks handed to add_task since synchronize last returned
    ran,          \* per slot: tasks its worker called since synchronize last returned
    late,         \* an add_task of this round ran while some slot was not IDLE
    returned,     \* synchronize has returned and the driver has called neither
                  \* add_task, ready nor synchronize since
    build,        \* the threading backend compiled in (lines 61 and 95)
    bpc,          \* position in the one cas_wait call whose backoff is followed
    timeout,      \* its local `int timeout`
    naps,         \* number of take_a_nap calls it has made
    slept         \* microseconds its last take_a_nap call slept

dispatchVars ==
    <<forks, status, cas, queues, queue_count, queue_pivot, lock, task,
      allocated, inherited, freed, atfork, wpc, dpc, di, darg, ntask, sub,
      ran, late, returned>>

napVars == <<build, bpc, timeout, naps, slept>>

vars == <<dispatchVars, napVars>>

heapVars  == <<allocated, inherited, freed>>
poolVars  == <<queues, queue_count, lock, task, atfork, wpc, ran>>
ghostVars == <<ntask, sub, late, returned>>

Slots == 0 .. (queue_count - 1)

\* No thread and no pool: the statics of lines 31 and 159-161.
InitDispatch ==
    /\ forks       = 0
    /\ status      = "live"
    /\ cas         = NULL
    /\ queues      = NULL
    /\ queue_count = 0
    /\ queue_pivot = 0
    /\ lock        = <<>>
    /\ task        = <<>>
    /\ allocated   = {}
    /\ inherited   = {}
    /\ freed       = {}
    /\ atfork      = 0
    /\ wpc         = <<>>
    /\ dpc         = "idle"
    /\ di          = 0
    /\ darg        = 0
    /\ ntask       = 0
    /\ sub         = <<>>
    /\ ran         = <<>>
    /\ late        = FALSE
    /\ returned    = FALSE

\* No cas_wait call is being followed.
NoWait ==
    /\ bpc     = "out"
    /\ timeout = 0
    /\ naps    = 0
    /\ slept   = 0

Init ==
    /\ InitDispatch
    /\ build = "NUMBA_PTHREAD"
    /\ NoWait

\* The record of a round (sub, ran, late) is kept until the driver's next
\* call of add_task, ready or synchronize, which begins the next round.
round_sub  == IF returned THEN <<>> ELSE sub
round_late == IF returned THEN FALSE ELSE late
round_ran  == IF returned THEN [i \in DOMAIN ran |-> <<>>] ELSE ran

Crash == status' = "crashed"

\* ------------------------------------------------------------ the CAS call
\* What the installed provider does in one atomic step: the value it returns
\* and the value it leaves in *ptr.
cas_call(cur, old, repl) ==
    [out |-> cur, mem |-> IF cur = old THEN repl ELSE cur]

\* ---------------------------------------------------------------- set_cas
SetCas(ptr) ==
    /\ status = "live"
    /\ dpc = "idle"
    /\ cas' = ptr
    /\ UNCHANGED <<forks, status, queue_pivot, dpc, di, darg>>
    /\ UNCHANGED heapVars
    /\ UNCHANGED poolVars
    /\ UNCHANGED ghostVars
    /\ UNCHANGED napVars

\* ----------------------------------------------------------------- cas_wait
\* A wait that returns after its first attempt, whatever it found.
cas_wait_returns_always(out, old) == TRUE

\* A wait that returns when the lock was not the expected value.
cas_wait_returns_inverted(out, old) == out # old

\* Line 43: the test that ends the wait after one call of the provider.
cas_wait_returns(out, old) == out = old

\* One pass through the body of `if (cas) { ... }` (lines 42-43) on a word
\* holding cur: what the word holds afterwards and whether cas_wait returns.
cas_wait_attempt(cur, old, repl) ==
    LET r == cas_call(cur, old, repl)
    IN  [mem |-> r.mem, ret |-> cas_wait_returns(r.out, old)]

\* Line 40 tests the global `cas` and line 42 calls through it. `cas` is a
\* plain static written by set_cas without synchronisation, so the call uses
\* either the value the test loaded (kept in a register) or a second load.
cas_loaded == {CAS_FN, cas}

\* synchronize() that takes a slot while its worker is still RUNNING.
wait_old_sync_running(pc) ==
    CASE pc \in {"ready_check", "ready_call"} -> IDLE
      [] pc \in {"sync_check", "sync_call"}   -> RUNNING
      [] pc \in {"take_check", "take_call"}   -> READY
      [] pc \in {"done_check", "done_call"}   -> RUNNING

\* synchronize() that takes a slot as soon as it is READY.
wait_old_sync_ready(pc) ==
    CASE pc \in {"ready_check", "ready_call"} -> IDLE
      [] pc \in {"sync_check", "sync_call"}   -> READY
      [] pc \in {"take_check", "take_call"}   -> READY
      [] pc \in {"done_check", "done_call"}   -> RUNNING

\* A synchronize that passes slots no ready() has released.
wait_old_sync_idle(pc) ==
    CASE pc \in {"ready_check", "ready_call"} -> IDLE
      [] pc \in {"sync_check", "sync_call"}   -> IDLE
      [] pc \in {"take_check", "take_call"}   -> READY
      [] pc \in {"done_check", "done_call"}   -> RUNNING

\* A worker that takes its slot without waiting for ready().
wait_old_take_idle(pc) ==
    CASE pc \in {"ready_check", "ready_call"} -> IDLE
      [] pc \in {"sync_check", "sync_call"}   -> DONE
      [] pc \in {"take_check", "take_call"}   -> IDLE
      [] pc \in {"done_check", "done_call"}   -> RUNNING

\* The transition each wait asks of the slot's lock.
wait_old(pc) ==
    CASE pc \in {"ready_check", "ready_call"} -> IDLE
      [] pc \in {"sync_check", "sync_call"}   -> DONE
      [] pc \in {"take_check", "take_call"}   -> READY
      [] pc \in {"done_check", "done_call"}   -> RUNNING

\* A worker that hands its slot straight back as IDLE.
wait_repl_skip_done(pc) ==
    CASE pc \in {"ready_check", "ready_call"} -> READY
      [] pc \in {"sync_check", "sync_call"}   -> IDLE
      [] pc \in {"take_check", "take_call"}   -> RUNNING
      [] pc \in {"done_check", "done_call"}   -> IDLE

wait_repl(pc) ==
    CASE pc \in {"ready_check", "ready_call"} -> READY
      [] pc \in {"sync_check", "sync_call"}   -> IDLE
      [] pc \in {"take_check", "take_call"}   -> RUNNING
      [] pc \in {"done_check", "done_call"}   -> DONE

\* The two positions inside one cas_wait: the test and the call.
check_of(pc) ==
    CASE pc = "ready_call" -> "ready_check"
      [] pc = "sync_call"  -> "sync_check"
      [] pc = "take_call"  -> "take_check"
      [] pc = "done_call"  -> "done_check"

call_of(pc) ==
    CASE pc = "ready_check" -> "ready_call"
      [] pc = "sync_check"  -> "sync_call"
      [] pc = "take_check"  -> "take_call"
      [] pc = "done_check"  -> "done_call"

\* ----------------------------------------------------------- launch_threads
\* launch_threads without its test of queues.
launch_guard_always == TRUE

\* Line 203: if (!queues)
launch_guard == queues = NULL

\* The block a successful malloc returns: one never handed out before.
new_block == Cardinality(allocated) + 1

\* numba_new_thread for slot i: the position its thread starts at, or "none"
\* when pthread_create / _beginthreadex failed (lines 78-80, 133-134).
new_thread(i, created) == IF i \in created THEN "take_check" ELSE "none"

LaunchCall(count) ==
    /\ status = "live"
    /\ dpc = "idle"
    /\ dpc'  = "launch"
    /\ darg' = count
    /\ UNCHANGED <<forks, status, cas, queue_pivot, di>>
    /\ UNCHANGED heapVars
    /\ UNCHANGED poolVars
    /\ UNCHANGED ghostVars
    /\ UNCHANGED napVars

LaunchBody ==
    /\ status = "live"
    /\ dpc = "launch"
    /\ LET count == darg IN
       IF launch_guard
       THEN \E m \in {NULL, new_block} :
              IF m = NULL
              THEN \* malloc failed: memset(NULL, 0, sz) writes through null
                   /\ Crash
                   /\ UNCHANGED <<dpc, darg, allocated>>
                   /\ UNCHANGED poolVars
              ELSE \E created \in SUBSET (0 .. count - 1) :
                   /\ queues'      = m
                   /\ allocated'   = allocated \cup {m}
                   /\ lock'        = [i \in 0 .. count - 1 |-> 0]
                   /\ task'        = [i \in 0 .. count - 1 |-> 0]
                   /\ queue_count' = count
                   /\ wpc'         = [i \in 0 .. count - 1 |-> new_thread(i, created)]
                   /\ atfork'      = atfork + count
                   /\ ran'         = [i \in 0 .. count - 1 |-> <<>>]
                   /\ dpc'         = "idle"
                   /\ darg'        = 0
                   /\ UNCHANGED status
       ELSE /\ dpc'  = "idle"
            /\ darg' = 0
            /\ UNCHANGED <<status, allocated>>
            /\ UNCHANGED poolVars
    /\ UNCHANGED <<forks, cas, queue_pivot, di, inherited, freed>>
    /\ UNCHANGED ghostVars
    /\ UNCHANGED napVars

\* ----------------------------------------------------------------- add_task
\* A cursor that is never wrapped.
move_pivot_nowrap(pivot, count) == pivot + 1

\* Lines 182-184: if ( ++queue_pivot == queue_count ) queue_pivot = 0;
move_pivot(pivot, count) == IF pivot + 1 = count THEN 0 ELSE pivot + 1

\* &queues[queue_pivot] names a slot of a live block.
slot_valid == queues # NULL /\ queue_pivot \in Slots

AddTask ==
    /\ status = "live"
    /\ dpc = "idle"
    /\ ntask < MaxTasks
    /\ Len(round_sub) < MaxSub
    /\ LET t == ntask + 1
           wrote ==
               /\ queue_pivot' = move_pivot(queue_pivot, queue_count)
               /\ ntask' = t
               /\ sub'   = Append(round_sub, t)
               /\ late'  = (round_late \/ (\E i \in DOMAIN lock : lock[i] # IDLE))
               /\ ran'   = round_ran
               /\ returned' = FALSE
               /\ UNCHANGED status
           trap ==
               /\ Crash
               /\ UNCHANGED <<task, queue_pivot, ran>>
               /\ UNCHANGED ghostVars
       IN  IF slot_valid
           THEN /\ task' = [task EXCEPT ![queue_pivot] = t]
                /\ wrote
           ELSE IF queues = NULL
           THEN \* the store goes to &((Queue*)NULL)[queue_pivot].task, in
                \* the unmapped page at address 0
                trap
           ELSE \* the store goes past the end of the block: the process
                \* traps, or the store lands outside the slots
                \/ trap
                \/ /\ UNCHANGED task
                   /\ wrote
    /\ UNCHANGED <<forks, cas, queues, queue_count, lock, atfork, wpc>>
    /\ UNCHANGED <<dpc, di, darg>>
    /\ UNCHANGED heapVars
    /\ UNCHANGED napVars

\* -------------------------------------------------------- ready, synchronize
\* ready(): for (i = 0; i < queue_count; ++i) cas_wait(&queues[i].lock, IDLE, READY)
Ready ==
    /\ status = "live"
    /\ dpc = "idle"
    /\ IF 0 < queue_count
       THEN /\ dpc' = "ready_check"
            /\ di'  = 0
            /\ sub'  = round_sub
            /\ late' = round_late
            /\ ran'  = round_ran
            /\ returned' = FALSE
       ELSE UNCHANGED <<dpc, di, sub, late, ran, returned>>
    /\ UNCHANGED <<forks, status, cas, queue_pivot, darg, ntask>>
    /\ UNCHANGED <<queues, queue_count, lock, task, atfork, wpc>>
    /\ UNCHANGED heapVars
    /\ UNCHANGED napVars

\* synchronize(): for (i = 0; i < queue_count; ++i) cas_wait(&queues[i].lock, DONE, IDLE)
Synchronize ==
    /\ status = "live"
    /\ dpc = "idle"
    /\ IF 0 < queue_count
       THEN /\ dpc' = "sync_check"
            /\ di'  = 0
            /\ sub'  = round_sub
            /\ late' = round_late
            /\ ran'  = round_ran
            /\ returned' = FALSE
       ELSE UNCHANGED <<dpc, di, sub, late, ran, returned>>
    /\ UNCHANGED <<forks, status, cas, queue_pivot, darg, ntask>>
    /\ UNCHANGED <<queues, queue_count, lock, task, atfork, wpc>>
    /\ UNCHANGED heapVars
    /\ UNCHANGED napVars

\* cas_wait line 40 in the driver: with no provider the attempt is skipped
\* and the thread naps (line 46) and tests again.
DriverCheck ==
    /\ status = "live"
    /\ dpc \in {"ready_check", "sync_check"}
    /\ IF cas # NULL
       THEN dpc' = call_of(dpc)
       ELSE UNCHANGED dpc
    /\ UNCHANGED <<forks, status, cas, queue_pivot, di, darg>>
    /\ UNCHANGED heapVars
    /\ UNCHANGED poolVars
    /\ UNCHANGED ghostVars
    /\ UNCHANGED napVars

\* cas_wait lines 42-43 in the driver, and the loop step of ready/synchronize.
DriverCall ==
    /\ status = "live"
    /\ dpc \in {"ready_call", "sync_call"}
    /\ \E fn \in cas_loaded :
         IF fn = NULL \/ queues = NULL
         THEN \* call through a null function pointer, or a CAS on
              \* &((Queue*)NULL)[i].lock: the process traps
              /\ Crash
              /\ UNCHANGED <<lock, dpc, di, returned>>
         ELSE LET r == cas_wait_attempt(lock[di], wait_old(dpc), wait_repl(dpc))
                  last == di + 1 >= queue_count
              IN  /\ lock' = [lock EXCEPT ![di] = r.mem]
                  /\ UNCHANGED status
                  /\ IF ~r.ret
                     THEN /\ dpc' = check_of(dpc)
                          /\ UNCHANGED <<di, returned>>
                     ELSE IF ~last
                     THEN /\ dpc' = check_of(dpc)
                          /\ di'  = di + 1
                          /\ UNCHANGED returned
                     ELSE /\ dpc' = "idle"
                          /\ di'  = 0
                          /\ returned' = (dpc = "sync_call")
    /\ UNCHANGED <<forks, cas, queues, queue_count, queue_pivot, task, atfork,
                   wpc, darg, ntask, sub, ran, late>>
    /\ UNCHANGED heapVars
    /\ UNCHANGED napVars

\* ------------------------------------------------------------ thread_worker
\* A worker that calls the task again after marking the slot DONE.
worker_next_rerun(pc) ==
    CASE pc = "take_call" -> "run"
      [] pc = "run"       -> "done_check"
      [] pc = "done_call" -> "run"

\* A worker that marks the slot DONE without calling the task.
worker_next_norun(pc) ==
    CASE pc = "take_call" -> "done_check"
      [] pc = "run"       -> "done_check"
      [] pc = "done_call" -> "take_check"

\* A worker that goes back for the next task without marking the slot DONE.
worker_next_skip_done(pc) ==
    CASE pc = "take_call" -> "run"
      [] pc = "run"       -> "take_check"
      [] pc = "done_call" -> "take_check"

\* Where the worker goes when the statement at pc completes (lines 192-199).
worker_next(pc) ==
    CASE pc = "take_call" -> "run"
      [] pc = "run"       -> "done_check"
      [] pc = "done_call" -> "take_check"

WorkerCheck(i) ==
    /\ status = "live"
    /\ i \in DOMAIN wpc
    /\ wpc[i] \in {"take_check", "done_check"}
    /\ IF cas # NULL
       THEN wpc' = [wpc EXCEPT ![i] = call_of(wpc[i])]
       ELSE UNCHANGED wpc
    /\ UNCHANGED <<forks, status, cas, queues, queue_count, queue_pivot, lock,
                   task, atfork, dpc, di, darg, ran>>
    /\ UNCHANGED heapVars
    /\ UNCHANGED ghostVars
    /\ UNCHANGED napVars

WorkerCall(i) ==
    /\ status = "live"
    /\ i \in DOMAIN wpc
    /\ wpc[i] \in {"take_call", "done_call"}
    /\ \E fn \in cas_loaded :
         IF fn = NULL
         THEN \* call through a null function pointer: the process traps
              /\ Crash
              /\ UNCHANGED <<lock, wpc>>
         ELSE LET r == cas_wait_attempt(lock[i], wait_old(wpc[i]), wait_repl(wpc[i]))
              IN  /\ lock' = [lock EXCEPT ![i] = r.mem]
                  /\ wpc'  = [wpc EXCEPT ![i] =
                                IF r.ret THEN worker_next(wpc[i]) ELSE check_of(wpc[i])]
                  /\ UNCHANGED status
    /\ UNCHANGED <<forks, cas, queues, queue_count, queue_pivot, task, atfork,
                   dpc, di, darg, ran>>
    /\ UNCHANGED heapVars
    /\ UNCHANGED ghostVars
    /\ UNCHANGED napVars

\* Line 196: task->func(task->args, task->dims, task->steps, task->data)
WorkerRun(i) ==
    /\ status = "live"
    /\ i \in DOMAIN wpc
    /\ wpc[i] = "run"
    /\ IF task[i] = NULL
       THEN \* call through the null func of a slot add_task never wrote
            /\ Crash
            /\ UNCHANGED <<wpc, ran>>
       ELSE /\ ran' = [ran EXCEPT ![i] = Append(@, task[i])]
            /\ wpc' = [wpc EXCEPT ![i] = worker_next("run")]
            /\ UNCHANGED status
    /\ UNCHANGED <<forks, cas, queues, queue_count, queue_pivot, lock, task,
                   atfork, dpc, di, darg>>
    /\ UNCHANGED heapVars
    /\ UNCHANGED ghostVars
    /\ UNCHANGED napVars

\* ------------------------------------------------------------------- fork()
\* A fork guard that frees the block and keeps the pointer.
reset_after_fork_dangling(q, f) ==
    [queues |-> q, freed |-> IF q # NULL THEN f \cup {q} ELSE f]

\* Lines 233-237, run on the child's copy of the globals.
reset_after_fork(q, f) ==
    [queues |-> NULL, freed |-> IF q # NULL THEN f \cup {q} ELSE f]

\* The child's globals once every registered handler has run: each call of
\* numba_new_thread registered reset_after_fork again (line 70), and the calls
\* after the first find queues = NULL, which free() ignores.
after_fork(q, f, n) ==
    IF n = 0 THEN [queues |-> q, freed |-> f] ELSE reset_after_fork(q, f)

\* fork() called by the driver thread between two calls of the module; the
\* state becomes the child's.
Fork ==
    /\ status = "live"
    /\ dpc = "idle"
    /\ forks < MaxForks
    /\ LET r == after_fork(queues, freed, atfork) IN
       /\ forks'     = forks + 1
       /\ queues'    = r.queues
       /\ freed'     = r.freed
       /\ inherited' = allocated
       \* the freed block has no content; threads are not inherited
       /\ lock'      = IF r.queues = NULL THEN <<>> ELSE lock
       /\ task'      = IF r.queues = NULL THEN <<>> ELSE task
       /\ wpc'       = IF r.queues = NULL THEN <<>> ELSE [i \in DOMAIN wpc |-> "none"]
       /\ ran'       = IF r.queues = NULL THEN <<>> ELSE [i \in DOMAIN ran |-> <<>>]
    /\ ntask' = 0
    /\ sub'   = <<>>
    /\ late'  = FALSE
    /\ returned' = FALSE
    /\ UNCHANGED <<status, cas, queue_count, queue_pivot, allocated, atfork,
                   dpc, di, darg>>
    /\ UNCHANGED napVars

\* ------------------------------------------------------------ specifications
\* One process, never forked.
Next ==
    \/ \E ptr \in {NULL, CAS_FN} : SetCas(ptr)
    \/ \E count \in 1 .. MaxThreads : LaunchCall(count)
    \/ LaunchBody
    \/ AddTask
    \/ Ready
    \/ Synchronize
    \/ DriverCheck
    \/ DriverCall
    \/ \E i \in 0 .. MaxThreads - 1 : WorkerCheck(i)
    \/ \E i \in 0 .. MaxThreads - 1 : WorkerCall(i)
    \/ \E i \in 0 .. MaxThreads - 1 : WorkerRun(i)

Spec == Init /\ [][Next]_vars

\* Every thread that can take a step eventually takes one: the driver inside
\* ready() or synchronize(), and each worker in its loop.
DriverStep == DriverCheck \/ DriverCall

WorkerStep(i) == WorkerCheck(i) \/ WorkerCall(i) \/ WorkerRun(i)

Fairness ==
    /\ WF_vars(DriverStep)
    /\ \A i \in 0 .. MaxThreads - 1 : WF_vars(WorkerStep(i))

SpecLive == Spec /\ Fairness

\* A process and the descendants fork() gives it.
NextFork ==
    \/ Next
    \/ Fork

SpecFork == Init /\ [][NextFork]_vars

\* ------------------------------------------------- the backoff of cas_wait
\* The dispatcher specifications above take a nap as a step that changes
\* nothing. This one follows the local `timeout` of a single cas_wait call
\* through its loop, under either threading backend, with the outcome of
\* each attempt as an input.
Builds == {"NUMBA_PTHREAD", "NUMBA_WINTHREAD"}

MAX_WAIT_TIME == 20 * 1000

\* x << 1 on a 32-bit int, for x >= 0.
shl1(x) == IF x < 2^30 THEN 2 * x ELSE 2 * (x - 2^30) - 2^30 - 2^30

\* A backoff without the ceiling of lines 50-52.
next_timeout_nocap(t) == shl1(t)

\* Lines 49-52: the value of `timeout` for the next nap.
next_timeout(t) ==
    LET d == shl1(t)
    IN  IF d >= MAX_WAIT_TIME THEN MAX_WAIT_TIME ELSE d

\* Microseconds take_a_nap(usec) sleeps: usleep(usec) with pthreads,
\* Sleep(usec / 1000) milliseconds with Windows threads.
take_a_nap(b, usec) ==
    IF b = "NUMBA_PTHREAD" THEN usec ELSE (usec \div 1000) * 1000

InitBackoff ==
    /\ InitDispatch
    /\ build \in Builds
    /\ NoWait

\* Entry of cas_wait: line 36.
WaitEnter ==
    /\ bpc = "out"
    /\ bpc' = "try"
    /\ timeout' = 1
    /\ UNCHANGED <<build, naps, slept>>
    /\ UNCHANGED dispatchVars

\* Lines 40-45: the attempt returns from cas_wait or falls through to the nap.
WaitTry(ok) ==
    /\ bpc = "try"
    /\ IF ok
       THEN bpc' = "out" /\ timeout' = 0 /\ naps' = 0 /\ slept' = 0
       ELSE bpc' = "nap" /\ UNCHANGED <<timeout, naps, slept>>
    /\ UNCHANGED build
    /\ UNCHANGED dispatchVars

\* Lines 46-52: the nap and the next value of `timeout`.
WaitNap ==
    /\ bpc = "nap"
    /\ naps < MaxNaps
    /\ slept' = take_a_nap(build, timeout)
    /\ naps' = naps + 1
    /\ timeout' = next_timeout(timeout)
    /\ bpc' = "try"
    /\ UNCHANGED build
    /\ UNCHANGED dispatchVars

NextBackoff ==
    \/ WaitEnter
    \/ \E ok \in BOOLEAN : WaitTry(ok)
    \/ WaitNap

SpecBackoff == InitBackoff /\ [][NextBackoff]_vars

\* ============================================================== the claims
Pool == queues # NULL

\* Number of times a worker called task t in the round on record.
ExecCount(t) ==
    Cardinality({ik \in { <<i, k>> : i \in DOMAIN ran, k \in 1 .. MaxSub + 1 } :
                    /\ ik[2] \in DOMAIN ran[ik[1]]
                    /\ ran[ik[1]][ik[2]] = t})

TakePcs == {"take_check", "take_call"}
SyncPcs == {"sync_check", "sync_call"}

\* A round in which the driver kept the order of the claim: at most one
\* add_task per slot, each made while every slot was IDLE.
OrderedRound == ~late /\ Len(sub) <= queue_count

\* C1: when synchronize() has returned from a round of k <= N add_task
\* calls followed by ready(), every task of the round has been called
\* exactly once by a worker and every slot is IDLE.
C1_ExactlyOnce ==
    (returned /\ OrderedRound) =>
        /\ \A k \in DOMAIN sub : ExecCount(sub[k]) = 1
        /\ \A i \in Slots : lock[i] = IDLE

C1_Witness ==
    /\ returned /\ OrderedRound
    /\ cas # NULL
    /\ queue_count = 2
    /\ Len(sub) = 1
    /\ ntask > 2

\* C2: synchronize() is a full barrier. While it runs, every slot it has
\* passed was seen DONE, is IDLE again and has a worker that finished the
\* round and went back to waiting; when it has returned this holds of every
\* slot of the pool.
C2_Barrier ==
    LET finished(i) ==
            /\ lock[i] = IDLE
            /\ wpc[i] \in TakePcs
            /\ Len(ran[i]) >= 1
    IN  /\ dpc \in SyncPcs => \A j \in 0 .. di - 1 : finished(j)
        /\ returned => \A i \in Slots : finished(i)

C2_Witness ==
    /\ dpc \in SyncPcs
    /\ di = 1
    /\ queue_count = 2
    /\ lock[1] = RUNNING

\* C3: a slot's lock moves only along IDLE -> READY -> RUNNING -> DONE ->
\* IDLE, and each move is a step of its designated thread: the driver inside
\* ready() for IDLE -> READY, the slot's own worker for READY -> RUNNING and
\* RUNNING -> DONE, the driver inside synchronize() for DONE -> IDLE.
C3_Cycle ==
    [][ \A i \in DOMAIN lock :
          (queues' = queues /\ lock'[i] # lock[i]) =>
             \/ /\ lock[i] = IDLE /\ lock'[i] = READY
                /\ dpc = "ready_call" /\ di = i /\ dpc' # dpc
                /\ wpc' = wpc
             \/ /\ lock[i] = READY /\ lock'[i] = RUNNING
                /\ wpc[i] = "take_call" /\ wpc'[i] = "run"
                /\ \A j \in DOMAIN wpc \ {i} : wpc'[j] = wpc[j]
                /\ dpc' = dpc /\ di' = di
             \/ /\ lock[i] = RUNNING /\ lock'[i] = DONE
                /\ wpc[i] = "done_call" /\ wpc'[i] = "take_check"
                /\ \A j \in DOMAIN wpc \ {i} : wpc'[j] = wpc[j]
                /\ dpc' = dpc /\ di' = di
             \/ /\ lock[i] = DONE /\ lock'[i] = IDLE
                /\ dpc = "sync_call" /\ di = i /\ dpc' # dpc
                /\ wpc' = wpc ]_vars

C3_Witness ==
    /\ returned
    /\ queue_count = 2
    /\ \A i \in Slots : Len(ran[i]) = 1 /\ lock[i] = IDLE

\* C4 as claimed: the task of a slot is written only while the slot is IDLE.
C4_WriteOnlyIdle ==
    [][ \A i \in DOMAIN task :
          (queues' = queues /\ task'[i] # task[i]) => lock[i] = IDLE ]_vars

\* C4 as amended: the worker reads its slot's task (the call of line 196)
\* only while the slot is RUNNING, and no other thread moves the slot out of
\* RUNNING while it reads; add_task's write is not ordered by the lock.
C4_ReadOnlyRunning ==
    \A i \in DOMAIN wpc : wpc[i] = "run" => lock[i] = RUNNING

C4_Witness ==
    \E i \in DOMAIN wpc :
        /\ wpc[i] = "run"
        /\ lock[i] = RUNNING
        /\ late
        /\ task[i] = ntask

\* C5: starting from the cursor position of a new pool, the t-th add_task
\* call writes slot (t - 1) mod N, so each slot holds the last task placed
\* on it, and after every N calls the cursor is back where it started.
LastOn(i) ==
    LET ts == {t \in 1 .. ntask : (t - 1) % queue_count = i}
    IN  IF ts = {} THEN NULL ELSE CHOOSE t \in ts : \A u \in ts : u <= t

C5_RoundRobin ==
    Pool =>
        /\ queue_pivot = ntask % queue_count
        /\ \A i \in Slots : task[i] = LastOn(i)

C5_Witness ==
    /\ Pool
    /\ queue_count = 2
    /\ ntask = 2
    /\ queue_pivot = 0
    /\ task[0] = 1 /\ task[1] = 2

\* C6: a launch_threads call made while a pool exists changes nothing: no
\* thread is created, and queues, queue_count, every slot's lock and task
\* and the cursor stay as they are.
C6_LaunchIdempotent ==
    [][ (dpc = "launch" /\ dpc' # "launch" /\ Pool) =>
            UNCHANGED <<queues, queue_count, queue_pivot, lock, task, wpc,
                        allocated, freed, atfork>> ]_vars

C6_Witness ==
    /\ dpc = "launch"
    /\ Pool
    /\ darg # queue_count
    /\ queue_pivot # 0
    /\ \E i \in Slots : lock[i] = DONE

\* C7 as claimed: while cas is NULL no waiter changes a slot's lock, so no
\* wait returns.
C7_NoCasNoProgress ==
    [][ (cas = NULL /\ queues' = queues) => lock' = lock ]_vars

\* C8: a slot whose thread could not be created keeps no thread, is only
\* ever IDLE or READY, and keeps every synchronize() from returning; it is
\* still written by add_task and released by ready().
C8_FailedThreadStalls ==
    [][ \A i \in DOMAIN wpc :
          wpc[i] = "none" =>
             /\ lock[i] \in {IDLE, READY}
             /\ dpc \in SyncPcs => dpc' \in SyncPcs
             /\ queues' = queues => (wpc'[i] = "none" /\ lock'[i] \in {IDLE, READY}) ]_vars

C8_Witness ==
    \E i \in DOMAIN wpc :
        /\ wpc[i] = "none"
        /\ task[i] # NULL
        /\ lock[i] = READY
        /\ dpc \in SyncPcs
        /\ di = i

\* C9 as claimed: in a forked child every call of add_task, ready or
\* synchronize first rebuilds the pool, so the call leaves the child running
\* on a block of its own that it did not inherit.
C9_ChildDispatchRelaunches ==
    [][ ( /\ forks > 0
          /\ inherited # {}
          /\ \/ ntask' # ntask
             \/ dpc = "idle" /\ dpc' \in {"ready_check", "sync_check"}
             \/ dpc = "idle" /\ wpc = <<>> /\ status' = "crashed" ) =>
        ( /\ status' = "live"
          /\ queues' # NULL
          /\ queues' \notin inherited' ) ]_vars

\* C10 as claimed: no block is ever handed to free().
C10_NeverFreed == freed = {}

\* C10 as amended: the process that allocated the slots never frees them;
\* the only free() is the fork guard's, in a child, of the block the child
\* inherited, and it leaves queues pointing at no freed block.
C10_FreedOnlyInherited ==
    /\ forks = 0 => freed = {}
    /\ freed \subseteq inherited
    /\ queues \notin freed

C10_Witness ==
    /\ forks = 1
    /\ freed = {1}
    /\ queues = 2
    /\ allocated = {1, 2}

\* The tasks of the round on record that no later add_task of the round can
\* have replaced: the last queue_count handed to add_task.
LastWritten ==
    {sub[k] : k \in {j \in DOMAIN sub : j > Len(sub) - queue_count}}

\* C11: in a round in which the driver fills every slot once and then calls
\* ready() and synchronize(), a worker calls only the task written to its
\* slot in this round, never one of an earlier round, and when synchronize
\* has returned it has called it exactly once.
C11_NoStaleTask ==
    (Pool /\ ~late /\ Len(sub) = queue_count) =>
        /\ \A i \in Slots : \A k \in DOMAIN ran[i] :
              ran[i][k] = task[i] /\ ran[i][k] \in LastWritten
        /\ \A i \in Slots : Len(ran[i]) <= 1
        /\ returned => \A i \in Slots : Len(ran[i]) = 1

C11_Witness ==
    /\ returned /\ ~late
    /\ queue_count = 2
    /\ Len(sub) = 2
    /\ ntask = 4
    /\ ran[0] = <<3>> /\ ran[1] = <<4>>

\* C12: when add_task is called more than N times before ready(), the
\* cursor has wrapped, every slot holds one of the last N tasks written,
\* workers call only those, and the tasks written before them are never
\* called.
C12_OverSubmission ==
    (Pool /\ ~late /\ Len(sub) > queue_count) =>
        /\ queue_pivot \in Slots
        /\ \A i \in Slots : task[i] \in LastWritten
        /\ \A i \in Slots : \A k \in DOMAIN ran[i] : ran[i][k] = task[i]
        /\ \A k \in DOMAIN sub : sub[k] \notin LastWritten => ExecCount(sub[k]) = 0
        /\ returned => \A i \in Slots : Len(ran[i]) = 1

\* C13: when synchronize has returned from a round of fewer than N add_task
\* calls, every slot was cycled and is IDLE again, every worker called the
\* task its slot held, and for the slots the round did not write that is a
\* task of an earlier round.
C13_UnderSubmission ==
    (Pool /\ ~late /\ returned /\ Len(sub) < queue_count) =>
        /\ \A i \in Slots : lock[i] = IDLE /\ ran[i] = <<task[i]>>
        /\ Cardinality({i \in Slots : task[i] \notin LastWritten})
              = queue_count - Len(sub)

C13_Witness ==
    /\ returned /\ ~late
    /\ queue_count = 2
    /\ sub = <<3>>
    /\ ran[0] = <<3>> /\ ran[1] = <<2>>

\* C14: a wait returns only from the compare-and-swap that found the lock
\* equal to the expected value and stored the target in the same step; an
\* attempt that found any other value leaves the lock as it was and the
\* wait goes on.
C14_WaitReturnsOnSwap ==
    [][/\ \A i \in Slots :
            (wpc[i] \in {"take_call", "done_call"} /\ wpc'[i] # wpc[i]) =>
                IF wpc'[i] = worker_next(wpc[i])
                THEN lock[i] = wait_old(wpc[i]) /\ lock'[i] = wait_repl(wpc[i])
                ELSE /\ wpc'[i] = check_of(wpc[i])
                     /\ lock[i] # wait_old(wpc[i])
                     /\ lock' = lock
       /\ (dpc \in {"ready_call", "sync_call"} /\ <<dpc, di>>' # <<dpc, di>>) =>
                IF dpc' = "idle" \/ di' = di + 1
                THEN lock[di] = wait_old(dpc) /\ lock'[di] = wait_repl(dpc)
                ELSE /\ dpc' = check_of(dpc) /\ di' = di
                     /\ lock[di] # wait_old(dpc)
                     /\ lock' = lock]_vars

C14_Witness ==
    /\ queue_count = 2
    /\ dpc = "sync_check" /\ di = 1
    /\ lock[0] = IDLE /\ lock[1] = RUNNING
    /\ wpc[1] = "done_check"

\* min(2^k, 20000): 2^14 = 16384 < 20000 < 2^15.
Schedule(k) == IF k >= 15 THEN 20000 ELSE 2^k

C16_AddTaskFrame ==
    [][(Pool /\ ntask' = ntask + 1) =>
          /\ queue_pivot \in Slots
          /\ task' = [task EXCEPT ![queue_pivot] = ntask']
          /\ queue_pivot' = (queue_pivot + 1) % queue_count
          /\ lock' = lock
          /\ wpc' = wpc
          /\ <<dpc, di, status>>' = <<dpc, di, status>>]_vars

\* C18: whenever a pool exists the cursor is the index of one of its slots.
C18_CursorInRange == Pool => queue_pivot \in Slots

\* C20: in a round of at most N add_task calls made before ready(), no
\* worker is at the call of a task function that was never set.
C20_NoNullCall ==
    (Pool /\ ~late /\ Len(sub) <= queue_count) =>
        \A i \in Slots : wpc[i] = "run" => task[i] # NULL

\* The round on record wrote every slot once before ready(), every worker
\* thread exists and a CAS function is installed.
RoundFilled ==
    /\ Pool /\ status = "live" /\ cas # NULL
    /\ ~late /\ Len(sub) = queue_count
    /\ \A i \in Slots : wpc[i] # "none" /\ task[i] # NULL

\* C17: under fair scheduling, the ready() that a driver calls after filling
\* the slots returns, and the synchronize() it calls after that ready()
\* returns.
C17_RoundTerminates ==
    /\ (RoundFilled /\ dpc = "ready_check" /\ di = 0
            /\ \A i \in Slots : lock[i] = IDLE)
         ~> (dpc = "idle")
    /\ (RoundFilled /\ dpc = "sync_check" /\ di = 0
            /\ \A i \in Slots : lock[i] # IDLE)
         ~> returned

C17_Witness ==
    /\ RoundFilled
    /\ returned
    /\ queue_count = 2
    /\ ntask = 2

ReadyPcs == {"ready_check", "ready_call"}

\* C19: a ready() that finds slot 0 not IDLE, as every slot is from the
\* return of the previous ready() until synchronize, stays at slot 0, and
\* so does a synchronize() that finds slot 0 IDLE, as every slot is when no
\* ready() came since launch or the last synchronize: no step of any thread
\* gives the lock the value the call waits for.
C19_WrongOrderBlocks ==
    [][/\ (dpc \in ReadyPcs /\ di = 0 /\ lock[0] # IDLE) =>
              (dpc' \in ReadyPcs /\ di' = 0 /\ lock'[0] # IDLE)
       /\ (dpc \in SyncPcs /\ di = 0 /\ lock[0] = IDLE) =>
              (dpc' \in SyncPcs /\ di' = 0 /\ lock'[0] = IDLE)]_vars

C19_Witness ==
    /\ status = "live"
    /\ queue_count = 2
    /\ dpc = "ready_call" /\ di = 0
    /\ lock[0] = DONE /\ lock[1] = DONE

====
